---- MODULE Spec2Model ----
(***************************************************************************)
(* A model of the trade-statistics acquisition pipeline:                   *)
(*   - codes/commodity_wise_import_scraper.py : the resumable crawl driver *)
(*     (completion gate, per-period request cycle, staging reconciler);    *)
(*   - codes/transform_to_long_format_export.py : the wide-to-long         *)
(*     transformer.                                                        *)
(* The remote report tool, the browser's download machinery and the wall   *)
(* clock are the environment: their choices are nondeterministic.          *)
(***************************************************************************)
EXTENDS Integers, Sequences, FiniteSets, TLC

(* ------------------------------ bounds -------------------------------- *)
\* runs of the whole driver (process restarts) in one behaviour
MaxRuns == 2
\* one-second polls explored one by one before the rest of the wait is
\* taken in a single step
MaxShortPolls == 1
\* resolution of the clock: ticks per second
TicksPerSecond == 2

(* ------------------------- program constants -------------------------- *)
start_year == 2018
timeout == 60
MonthsPerYear == 12
ButtonSettle == 2
PollInterval == 1

MonthName ==
  << "January", "February", "March", "April", "May", "June", "July",
     "August", "September", "October", "November", "December" >>

VARIABLES
  hscodes,     \* the catalog handed to scrape_commodity_data
  wall,        \* the wall clock's calendar position [year, month]
  horizon,     \* the calendar month in which the behaviour ends
  clock,       \* the wall clock (time.time()), in ticks
  dirs,        \* the code directories that exist under BASE_DOWNLOAD_DIR
  store,       \* canonical artifacts: path -> content
  staging,     \* files of TEMP_DOWNLOAD_DIR
  downloads,   \* browser downloads in flight (export clicked, not renamed)
  session,     \* "none" | "open" | "closed": the browser session
  pc,          \* the driver's position
  run,         \* the number of the current run
  now,         \* datetime.now() captured at line 114
  idx,         \* index of the current code in hscodes
  year, month, \* loop variables of lines 137 and 139
  start_wait,  \* line 195
  new_file,    \* line 196: {} is None, {f} a staging file
  polls,       \* iterations of the poll loop taken in this task
  attempted,   \* loop positions with a network interaction in this run
  reached,     \* loop positions <<idx, year, month>> reached in this run
  gated,       \* indexes of codes skipped by the completion gate in this run
  last,        \* the most recent finished task: what happened, what was logged
  prevStore,   \* the canonical store as the previous run left it
  writes,      \* path -> number of moves into it
  timeouts,    \* <<run, path>> of the tasks noted as timed out
  temp_dir,    \* "present" | "removed": TEMP_DOWNLOAD_DIR itself
  call,        \* the arguments of a function called on its own
  result       \* what that call returned

vars ==
  << hscodes, wall, horizon, clock, dirs, store, staging, downloads, session, pc, run,
     now, idx, year, month, start_wait, new_file, polls, attempted, reached,
     gated, last, prevStore, writes, timeouts, temp_dir, call, result >>

(* ------------------------------ paths --------------------------------- *)
\* lines 146-148: <hscode_dir>/<MonthName>_<Year>.xlsx
TargetPath(hscode, y, m) == << hscode, MonthName[m], y >>

\* a faulty variant: os.path.exists never finds the artifact
PathNeverExists(p) == FALSE

\* a faulty variant: a period that timed out counts as done
PathExistsOrTimedOut(p) ==
  p \in DOMAIN store \/ \E t \in timeouts : t[2] = p

PathExists(p) == p \in DOMAIN store

(* ------------------------- completion gate ---------------------------- *)
\* a faulty variant: the gate also stops at the current month
GateFutureFromThisMonth(y, m) == y = wall.year /\ m >= wall.month

\* line 76: "Stop if future date" in the gate (reads the clock at call time)
GateFuture(y, m) == y = wall.year /\ m > wall.month

\* lines 73-84: the two nested loops with the break and the early return
RECURSIVE GateScan(_, _, _, _)
GateScan(hscode, y, m, end_year) ==
  IF y > end_year THEN TRUE
  ELSE IF m > MonthsPerYear THEN GateScan(hscode, y + 1, 1, end_year)
  ELSE IF GateFuture(y, m) THEN GateScan(hscode, y + 1, 1, end_year)
  ELSE IF ~PathExists(TargetPath(hscode, y, m)) THEN FALSE
  ELSE GateScan(hscode, y, m + 1, end_year)

\* a faulty variant: a code is complete as soon as its directory exists
GateDirOnly(hscode, first_year, end_year) == hscode \in dirs

is_hscode_completed(hscode, first_year, end_year) ==
  IF hscode \notin dirs THEN FALSE
  ELSE GateScan(hscode, first_year, 1, end_year)

(* --------------------------- reconciler ------------------------------- *)
\* lines 57-61: the possible return values; {} is None.  max() keeps the
\* first of several files with the same ctime, in glob's (unspecified) order.
get_latest_file(directory) ==
  LET files == { f \in directory : ~f.partial }
  IN  { f \in files : \A g \in files : g.ctime <= f.ctime }

\* line 198
PollOpen == clock - start_wait < timeout * TicksPerSecond

\* line 202
IsNew(f) == f.mtime > start_wait

(* ------------------------- loop conditions ---------------------------- *)
\* line 142: the same test in the driver, on the `now` captured at line 114
LoopFuture(y, m) == y = now.year /\ m > now.month

\* the loop variables denote an iteration of the body of lines 139-219
InBody == year <= now.year /\ month <= MonthsPerYear /\ ~LoopFuture(year, month)

Target == TargetPath(hscodes[idx], year, month)
Pos == << idx, year, month >>

NoTask == [path |-> << >>, cause |-> "none", report |-> "none", run |-> 0]

envVars == << wall, staging, downloads >>
histVars == << horizon, prevStore, writes, timeouts, temp_dir, call, result >>
taskVars == << start_wait, new_file, polls >>

(* --------------------------- the driver ------------------------------- *)
\* lines 110-119: setup_driver, capture of `now`
StartRun ==
  /\ pc = "main"
  /\ session' = "open"
  /\ now' = wall
  /\ idx' = 1
  /\ pc' = "code"
  /\ attempted' = {}
  /\ reached' = {}
  /\ gated' = {}
  /\ UNCHANGED << hscodes, clock, dirs, store, run, year, month, last >>
  /\ UNCHANGED << envVars, histVars, taskVars >>

\* lines 122-129: next code of the catalog, its directory is created
MakeDir ==
  /\ pc = "code"
  /\ idx <= Len(hscodes)
  /\ dirs' = dirs \cup {hscodes[idx]}
  /\ pc' = "gate"
  /\ UNCHANGED << hscodes, clock, store, session, run, now, idx, year, month,
                  attempted, reached, gated, last >>
  /\ UNCHANGED << envVars, histVars, taskVars >>

\* lines 132-134: the completion gate says the code is complete
GateSkip ==
  /\ pc = "gate"
  /\ is_hscode_completed(hscodes[idx], start_year, now.year)
  /\ gated' = gated \cup {idx}
  /\ idx' = idx + 1
  /\ pc' = "code"
  /\ UNCHANGED << hscodes, clock, dirs, store, session, run, now, year, month,
                  attempted, reached, last >>
  /\ UNCHANGED << envVars, histVars, taskVars >>

\* lines 132, 137-139: the gate says incomplete, the period loops start
GateEnter ==
  /\ pc = "gate"
  /\ ~is_hscode_completed(hscodes[idx], start_year, now.year)
  /\ year' = start_year
  /\ month' = 1
  /\ pc' = "period"
  /\ UNCHANGED << hscodes, clock, dirs, store, session, run, now, idx, attempted,
                  reached, gated, last >>
  /\ UNCHANGED << envVars, histVars, taskVars >>

\* line 137 exhausted, line 221: the code is done
YearsDone ==
  /\ pc = "period"
  /\ last' = NoTask
  /\ year > now.year
  /\ idx' = idx + 1
  /\ pc' = "code"
  /\ UNCHANGED << hscodes, clock, dirs, store, session, run, now, year, month,
                  attempted, reached, gated >>
  /\ UNCHANGED << envVars, histVars, taskVars >>

\* line 139 exhausted: next year
MonthsDone ==
  /\ pc = "period"
  /\ last' = NoTask
  /\ year <= now.year
  /\ month > MonthsPerYear
  /\ year' = year + 1
  /\ month' = 1
  /\ UNCHANGED << hscodes, clock, dirs, store, session, pc, run, now, idx,
                  attempted, reached, gated >>
  /\ UNCHANGED << envVars, histVars, taskVars >>

\* lines 142-143: break out of the month loop
FutureBreak ==
  /\ pc = "period"
  /\ last' = NoTask
  /\ year <= now.year
  /\ month <= MonthsPerYear
  /\ LoopFuture(year, month)
  /\ year' = year + 1
  /\ month' = 1
  /\ UNCHANGED << hscodes, clock, dirs, store, session, pc, run, now, idx,
                  attempted, reached, gated >>
  /\ UNCHANGED << envVars, histVars, taskVars >>

\* a faulty variant: the request cycle is entered for an existing artifact
PeriodSkipRequests ==
  /\ pc = "period"
  /\ last' = NoTask
  /\ InBody
  /\ PathExists(Target)
  /\ reached' = reached \cup {Pos}
  /\ pc' = "get"
  /\ UNCHANGED << hscodes, clock, dirs, store, session, run, now, idx, year,
                  month, attempted, gated >>
  /\ UNCHANGED << envVars, histVars, taskVars >>

\* lines 151-152: the artifact exists, continue
PeriodSkip ==
  /\ pc = "period"
  /\ last' = NoTask
  /\ InBody
  /\ PathExists(Target)
  /\ reached' = reached \cup {Pos}
  /\ month' = month + 1
  /\ UNCHANGED << hscodes, clock, dirs, store, session, pc, run, now, idx,
                  year, attempted, gated >>
  /\ UNCHANGED << envVars, histVars, taskVars >>

\* a faulty variant: a task begins whether the artifact exists or not
PeriodBeginAnyway ==
  /\ pc = "period"
  /\ last' = NoTask
  /\ InBody
  /\ reached' = reached \cup {Pos}
  /\ pc' = "get"
  /\ UNCHANGED << hscodes, clock, dirs, store, session, run, now, idx, year,
                  month, attempted, gated >>
  /\ UNCHANGED << envVars, histVars, taskVars >>

\* lines 151-154: the artifact is absent, a task begins
PeriodBegin ==
  /\ pc = "period"
  /\ last' = NoTask
  /\ InBody
  /\ ~PathExists(Target)
  /\ reached' = reached \cup {Pos}
  /\ pc' = "get"
  /\ UNCHANGED << hscodes, clock, dirs, store, session, run, now, idx, year,
                  month, attempted, gated >>
  /\ UNCHANGED << envVars, histVars, taskVars >>

\* the files of the staging directory as seen once no request timestamp
\* is live:
\* the clock only grows, so no file that exists now will ever have a time
\* after this or a later timestamp; its times are kept as 0, the timestamp
AsOfNow(directory) ==
  { [f EXCEPT !.ctime = 0, !.mtime = 0] : f \in directory }

\* the end of one iteration of the month loop: what happened, what was
\* printed, and on to the next month.  The model's clock restarts: it counts
\* the seconds since the latest point where no start_wait was live.
EndTask(cause, report, directory) ==
  /\ last' = [path |-> Target, cause |-> cause, report |-> report, run |-> run]
  /\ month' = month + 1
  /\ clock' = 0
  /\ staging' = AsOfNow(directory)
  /\ pc' = "period"

\* a faulty variant: the exception is not caught and leaves the try block
CaughtUnwinds(cause) ==
  /\ last' = [path |-> Target, cause |-> cause, report |-> "Failed",
              run |-> run]
  /\ month' = month
  /\ clock' = clock
  /\ staging' = staging
  /\ pc' = "unwind"

\* lines 216-219: except Exception: print the error, continue
Caught(cause) == EndTask(cause, "Failed", staging)

(* ----------------------- one request cycle ---------------------------- *)
\* what no step of a request cycle changes
cycleFrame ==
  << hscodes, horizon, dirs, session, run, now, idx, year, reached, gated,
     wall, prevStore, temp_dir, call, result >>

\* lines 157-162: navigation, the form becomes ready
GetOk ==
  /\ pc = "get"
  /\ attempted' = attempted \cup {Pos}
  /\ pc' = "fill"
  /\ UNCHANGED << cycleFrame, timeouts, taskVars, clock, store, writes, staging,
                  downloads, month, last >>

\* lines 157-162 raise (navigation error, form-readiness timeout)
GetRaise ==
  /\ pc = "get"
  /\ attempted' = attempted \cup {Pos}
  /\ Caught("nav_error")
  /\ UNCHANGED << cycleFrame, timeouts, taskVars, store, writes, downloads >>

\* lines 165-177: the three fields are filled in and the form is submitted
FillOk ==
  /\ pc = "fill"
  /\ pc' = "wait_excel"
  /\ UNCHANGED << cycleFrame, timeouts, taskVars, clock, store, writes, staging,
                  downloads, month, last, attempted >>

\* lines 165-177 raise (an element is missing, the session is gone)
FillRaise ==
  /\ pc = "fill"
  /\ Caught("form_error")
  /\ UNCHANGED << cycleFrame, timeouts, taskVars, store, writes, downloads, attempted >>

\* lines 181-185: the export control appears; time.sleep(2)
ButtonAppears ==
  /\ pc = "wait_excel"
  /\ clock' = clock + ButtonSettle * TicksPerSecond
  /\ pc' = "click"
  /\ UNCHANGED << cycleFrame, timeouts, taskVars, store, writes, staging, downloads,
                  month, last, attempted >>

\* lines 186-188 after the 20 s wait expired (TimeoutException)
ButtonTimeout ==
  /\ pc = "wait_excel"
  /\ EndTask("no_button", "NoData", staging)
  /\ UNCHANGED << cycleFrame, timeouts, taskVars, store, writes, downloads, attempted >>

\* lines 186-188 after any other exception of the wait (the session died):
\* the bare except prints the same "No data/button" line and continues
ButtonSessionError ==
  /\ pc = "wait_excel"
  /\ EndTask("session_error", "NoData", staging)
  /\ UNCHANGED << cycleFrame, timeouts, taskVars, store, writes, downloads, attempted >>

\* lines 191-196: the export click starts a browser download, start_wait is
\* taken.  The model's clock counts the seconds since the latest start_wait.
ClickOk ==
  /\ pc = "click"
  /\ downloads' = downloads \cup
       {[req |-> << run, idx, year, month >>, owner |-> Target]}
  /\ clock' = 0
  /\ start_wait' = 0
  /\ staging' = AsOfNow(staging)
  /\ new_file' = {}
  /\ polls' = 0
  /\ pc' = "poll"
  /\ UNCHANGED << cycleFrame, timeouts, store, writes, month, last, attempted >>

\* line 191 raises
ClickRaise ==
  /\ pc = "click"
  /\ Caught("click_error")
  /\ UNCHANGED << cycleFrame, timeouts, taskVars, store, writes, downloads, attempted >>

\* a faulty variant: when the wait has expired the poll loop starts over
PollExitStartsOver ==
  /\ pc = "poll"
  /\ ~PollOpen
  /\ clock' = 0
  /\ start_wait' = 0
  /\ polls' = 0
  /\ staging' = AsOfNow(staging)
  /\ UNCHANGED << cycleFrame, timeouts, new_file, pc, store, writes,
                  downloads, month, last, attempted >>

\* line 198 false: the poll loop ends with new_file = None
PollExit ==
  /\ pc = "poll"
  /\ ~PollOpen
  /\ pc' = "after_poll"
  /\ UNCHANGED << cycleFrame, timeouts, taskVars, clock, store, writes, staging,
                  downloads, month, last, attempted >>

\* lines 199-204: the latest file is new, break
PollFound ==
  /\ pc = "poll"
  /\ PollOpen
  /\ \E latest \in get_latest_file(staging) :
       /\ IsNew(latest)
       /\ new_file' = {latest}
  /\ pc' = "after_poll"
  /\ UNCHANGED << cycleFrame, timeouts, start_wait, polls, clock, store, writes,
                  staging, downloads, month, last, attempted >>

\* lines 199-205: no latest file, or it is not new; time.sleep(1).  The
\* driver looks again on a whole second: after one second, or after the
\* rest of the wait taken in one step.
PollSleep ==
  /\ pc = "poll"
  /\ PollOpen
  /\ \/ get_latest_file(staging) = {}
     \/ \E latest \in get_latest_file(staging) : ~IsNew(latest)
  /\ \E d \in {PollInterval, timeout} :
       /\ d = PollInterval => polls < MaxShortPolls
       /\ clock' = ((clock \div TicksPerSecond) + d) * TicksPerSecond
  /\ polls' = polls + 1
  /\ UNCHANGED << cycleFrame, timeouts, start_wait, new_file, pc, store, writes,
                  staging, downloads, month, last, attempted >>

\* lines 199-202 raise (the file vanished between glob and stat)
PollRaise ==
  /\ pc = "poll"
  /\ PollOpen
  /\ Caught("poll_error")
  /\ UNCHANGED << cycleFrame, timeouts, taskVars, store, writes, downloads, attempted >>

\* a faulty variant: the file is copied, the staging file stays
MoveCopies ==
  /\ pc = "after_poll"
  /\ \E f \in new_file :
       /\ f \in staging
       /\ store' = [p \in DOMAIN store \cup {Target} |->
                      IF p = Target THEN [owner |-> f.owner]
                      ELSE store[p]]
       /\ EndTask("saved", "Saved", staging)
  /\ writes' = [p \in DOMAIN writes \cup {Target} |->
                  IF p = Target
                  THEN (IF p \in DOMAIN writes THEN writes[p] ELSE 0) + 1
                  ELSE writes[p]]
  /\ UNCHANGED << cycleFrame, timeouts, taskVars, downloads, attempted >>

\* lines 207-212: time.sleep(1), shutil.move(new_file, target_path)
MoveOk ==
  /\ pc = "after_poll"
  /\ \E f \in new_file :
       /\ f \in staging
       /\ store' = [p \in DOMAIN store \cup {Target} |->
                      IF p = Target THEN [owner |-> f.owner]
                      ELSE store[p]]
       /\ EndTask("saved", "Saved", staging \ {f})
  /\ writes' = [p \in DOMAIN writes \cup {Target} |->
                  IF p = Target
                  THEN (IF p \in DOMAIN writes THEN writes[p] ELSE 0) + 1
                  ELSE writes[p]]
  /\ UNCHANGED << cycleFrame, timeouts, taskVars, downloads, attempted >>

\* a faulty variant: the move raises after it has written the target
MoveRaiseAfterCopy ==
  /\ pc = "after_poll"
  /\ \E f \in new_file :
       store' = [p \in DOMAIN store \cup {Target} |->
                   IF p = Target THEN [owner |-> f.owner] ELSE store[p]]
  /\ Caught("move_error")
  /\ UNCHANGED << cycleFrame, timeouts, taskVars, writes, downloads,
                  attempted >>

\* line 211 raises (the file is still held, or gone)
MoveRaise ==
  /\ pc = "after_poll"
  /\ new_file # {}
  /\ Caught("move_error")
  /\ UNCHANGED << cycleFrame, timeouts, taskVars, store, writes, downloads, attempted >>

\* lines 213-214: "Download timeout."
DownloadTimeoutStep ==
  /\ pc = "after_poll"
  /\ new_file = {}
  /\ EndTask("poll_timeout", "Timeout", staging)
  /\ UNCHANGED << cycleFrame, taskVars, store, writes, downloads, attempted >>

DownloadTimeout == DownloadTimeoutStep /\ UNCHANGED timeouts

\* the same step, the timed-out task noted in the history
DownloadTimeoutNoted ==
  DownloadTimeoutStep /\ timeouts' = timeouts \cup {<< run, Target >>}

\* a faulty variant: the error of os.rmdir on a directory that is not empty
\* is not passed over
FinallyCleanupRaises ==
  /\ \/ pc = "code" /\ idx > Len(hscodes)
     \/ pc = "unwind"
  /\ session' = "closed"
  /\ downloads' = {}
  /\ staging' = { [f EXCEPT !.req = << >>] : f \in staging }
  /\ temp_dir' = IF staging = {} THEN "removed" ELSE "present"
  /\ pc' = IF staging = {} THEN "done" ELSE "crashed"
  /\ UNCHANGED << hscodes, clock, dirs, store, run, now, idx, year, month,
                  attempted, reached, gated, last, wall >>
  /\ UNCHANGED << horizon, prevStore, writes, timeouts, call, result >>
  /\ UNCHANGED taskVars

\* lines 117, 223-230: the finally clause runs when the catalog is exhausted
\* and when an exception leaves the try block; driver.quit() ends the
\* session and the downloads still in flight, whose partial files stay;
\* os.rmdir removes the staging directory if it is empty and raises if it is
\* not, which the bare except passes over
Finally ==
  /\ \/ pc = "code" /\ idx > Len(hscodes)
     \/ pc = "unwind"
  /\ session' = "closed"
  /\ downloads' = {}
  /\ staging' = { [f EXCEPT !.req = << >>] : f \in staging }
  /\ temp_dir' = IF staging = {} THEN "removed" ELSE "present"
  /\ pc' = "done"
  /\ UNCHANGED << hscodes, clock, dirs, store, run, now, idx, year, month,
                  attempted, reached, gated, last, wall >>
  /\ UNCHANGED << horizon, prevStore, writes, timeouts, call, result >>
  /\ UNCHANGED taskVars

\* the whole driver is run again, on the storage tree the last run left;
\* lines 27-28 make the staging directory if it is not there
RunAgain ==
  /\ pc = "done"
  /\ run < MaxRuns
  /\ run' = run + 1
  /\ prevStore' = store
  /\ temp_dir' = "present"
  /\ session' = "none"
  /\ pc' = "main"
  /\ attempted' = {}
  /\ reached' = {}
  /\ gated' = {}
  /\ UNCHANGED << hscodes, horizon, clock, dirs, store, now, idx, year,
                  month, last, writes, timeouts, call, result >>
  /\ UNCHANGED << envVars, taskVars >>

(* -------------------------- the environment --------------------------- *)
\* the browser writes the bytes of a download into its .crdownload file
DownloadWrite ==
  /\ \E d \in downloads :
       /\ \A f \in staging : f.req # d.req
       /\ staging' = staging \cup
            {[req |-> d.req, owner |-> d.owner, partial |-> TRUE,
              ctime |-> clock, mtime |-> clock]}
  /\ UNCHANGED << hscodes, clock, dirs, store, session, pc, run, now, idx,
                  year, month, attempted, reached, gated, last, wall, downloads >>
  /\ UNCHANGED << histVars, taskVars >>

\* the browser renames the finished download to its final name: the rename
\* leaves the modification time and sets the change time, which is what
\* os.path.getctime reads on POSIX
DownloadFinish ==
  /\ \E d \in downloads : \E f \in staging :
       /\ f.req = d.req
       /\ f.partial
       /\ staging' = (staging \ {f}) \cup
            {[f EXCEPT !.partial = FALSE, !.ctime = clock, !.req = << >>]}
       /\ downloads' = downloads \ {d}
  /\ UNCHANGED << hscodes, clock, dirs, store, session, pc, run, now, idx,
                  year, month, attempted, reached, gated, last, wall >>
  /\ UNCHANGED << histVars, taskVars >>

\* time passes between two looks of the poll loop, while the browser is
\* still downloading
Tick ==
  /\ pc = "poll"
  /\ PollOpen
  /\ downloads # {}
  /\ (clock + 1) % TicksPerSecond # 0
  /\ clock' = clock + 1
  /\ UNCHANGED << hscodes, dirs, store, session, pc, run, now, idx, year,
                  month, attempted, reached, gated, last, wall, staging,
                  downloads >>
  /\ UNCHANGED << histVars, taskVars >>

\* the calendar month turns; the driver reads the calendar at lines 71 and
\* 114 only, so the turn is taken just before one of these reads
MonthTurns ==
  /\ pc \in {"main", "gate"}
  /\ wall # horizon
  /\ wall' = IF wall.month = MonthsPerYear
             THEN [year |-> wall.year + 1, month |-> 1]
             ELSE [year |-> wall.year, month |-> wall.month + 1]
  /\ UNCHANGED << hscodes, clock, dirs, store, session, pc, run, now, idx,
                  year, month, attempted, reached, gated, last, staging,
                  downloads >>
  /\ UNCHANGED << histVars, taskVars >>

(* ----------------------------- catalogs ------------------------------- *)
Codes == {"26011100", "71081200"}

Catalogs ==
  { << "26011100" >>, << "26011100", "71081200" >>,
    << "26011100", "26011100" >> }

Range(s) == { s[i] : i \in DOMAIN s }

\* the artifact a previous run left at path p
Kept(p) == [owner |-> p]

\* a file some earlier, interrupted run left in the staging directory
Stray ==
  [req |-> << >>, owner |-> << >>, partial |-> FALSE, ctime |-> 0, mtime |-> 0]

GridPaths(cs, w) ==
  { TargetPath(c, y, m) : c \in cs, y \in start_year..w.year,
                          m \in 1..MonthsPerYear } \
  { TargetPath(c, w.year, m) : c \in cs, m \in (w.month + 1)..MonthsPerYear }

January2018 == [year |-> start_year, month |-> 1]
December2018 == [year |-> start_year, month |-> MonthsPerYear]

\* a one-month grid: any storage tree over the catalog's codes
InitShort ==
  /\ hscodes \in Catalogs
  /\ wall = January2018
  /\ horizon = wall
  /\ \E have \in SUBSET GridPaths(Range(hscodes), wall) :
       store = [p \in have |-> Kept(p)]
  /\ dirs = { p[1] : p \in DOMAIN store }
  /\ staging = {}

\* an interrupted run left a finished download in the staging directory
InitStray ==
  /\ hscodes = << "26011100" >>
  /\ wall = January2018
  /\ horizon = wall
  /\ store = [p \in {} |-> Kept(p)]
  /\ dirs \in { {}, Range(hscodes) }
  /\ staging = {Stray}

\* the month turns during the behaviour
InitTurn ==
  /\ hscodes = << "26011100" >>
  /\ wall = January2018
  /\ horizon = [year |-> start_year, month |-> 2]
  /\ \E have \in SUBSET GridPaths(Range(hscodes), wall) :
       store = [p \in have |-> Kept(p)]
  /\ dirs = { p[1] : p \in DOMAIN store }
  /\ staging = {}

\* a grid about to cross the year: a complete tree, or one with a month of
\* 2018 missing
InitLong ==
  /\ hscodes = << "26011100" >>
  /\ wall = December2018
  /\ horizon = [year |-> start_year + 1, month |-> 1]
  /\ \E gone \in { {}, {TargetPath("26011100", start_year, 6)},
                   {TargetPath("26011100", start_year, MonthsPerYear)} } :
       store = [p \in GridPaths(Range(hscodes), wall) \ gone |-> Kept(p)]
  /\ dirs = Range(hscodes)
  /\ staging = {}

\* nothing has run yet
Idle ==
  /\ clock = 0
  /\ downloads = {}
  /\ session = "none"
  /\ run = 1
  /\ now = wall
  /\ idx = 1
  /\ year = start_year
  /\ month = 1
  /\ start_wait = 0
  /\ new_file = {}
  /\ polls = 0
  /\ attempted = {}
  /\ reached = {}
  /\ gated = {}
  /\ last = NoTask
  /\ prevStore = store
  /\ writes = [p \in {} |-> 0]
  /\ timeouts = {}
  /\ temp_dir = "present"

NoCall == [of |-> "none"]

Init ==
  /\ InitShort \/ InitStray \/ InitTurn \/ InitLong
  /\ Idle
  /\ pc = "main"
  /\ call = NoCall
  /\ result = NoCall

Driver ==
  \/ StartRun \/ MakeDir \/ GateSkip \/ GateEnter
  \/ YearsDone \/ MonthsDone \/ FutureBreak \/ PeriodSkip \/ PeriodBegin
  \/ GetOk \/ GetRaise \/ FillOk \/ FillRaise
  \/ ButtonAppears \/ ButtonTimeout \/ ButtonSessionError
  \/ ClickOk \/ ClickRaise
  \/ PollExit \/ PollFound \/ PollSleep \/ PollRaise
  \/ MoveOk \/ MoveRaise \/ DownloadTimeout
  \/ Finally \/ RunAgain

Environment == DownloadWrite \/ DownloadFinish \/ Tick \/ MonthTurns

Next == Driver \/ Environment

Spec == Init /\ [][Next]_vars

\* the driver is one sequential program that keeps running: a step of it
\* that stays possible is taken; nothing is assumed of the remote tool, the
\* browser's downloads or the calendar
\* the last month of a whole year is missing, and the month does not turn
InitYearEnd ==
  /\ hscodes = << "26011100" >>
  /\ wall = December2018
  /\ horizon = wall
  /\ store = [p \in GridPaths(Range(hscodes), wall) \
                      {TargetPath("26011100", start_year, MonthsPerYear)}
                |-> Kept(p)]
  /\ dirs = Range(hscodes)
  /\ staging = {}

\* the runs followed to their end, each with one period left to request:
\* a stray file in staging, two codes of which the first is complete, a
\* complete tree before the month turns, a year with its last month missing
InitLive ==
  /\ \/ InitStray
     \/ /\ InitShort
        /\ Cardinality(Range(hscodes)) > 1
        /\ DOMAIN store = {TargetPath(hscodes[1], start_year, 1)}
     \/ /\ InitTurn
        /\ DOMAIN store # {}
     \/ InitYearEnd
  /\ Idle
  /\ pc = "main"
  /\ call = NoCall
  /\ result = NoCall

SpecLive == InitLive /\ [][Next]_vars /\ WF_vars(Driver)

\* the same runs, with the tasks that end "Download timeout." noted
DriverNoted ==
  \/ StartRun \/ MakeDir \/ GateSkip \/ GateEnter
  \/ YearsDone \/ MonthsDone \/ FutureBreak \/ PeriodSkip \/ PeriodBegin
  \/ GetOk \/ GetRaise \/ FillOk \/ FillRaise
  \/ ButtonAppears \/ ButtonTimeout \/ ButtonSessionError
  \/ ClickOk \/ ClickRaise
  \/ PollExit \/ PollFound \/ PollSleep \/ PollRaise
  \/ MoveOk \/ MoveRaise \/ DownloadTimeoutNoted
  \/ Finally \/ RunAgain

NextRetry == DriverNoted \/ Environment

SpecRetry == InitLive /\ [][NextRetry]_vars

(* --------------- the completion gate, called on its own --------------- *)
\* artifacts missing from an otherwise complete tree
MaxGone == 1
\* years after start_year that a call may name or the clock may show
MaxYearsAhead == 2

GateYears == start_year..(start_year + MaxYearsAhead)

Dates ==
  { [year |-> y, month |-> m] :
      y \in start_year..(start_year + MaxYearsAhead - 1),
      m \in 1..MonthsPerYear }

NotAfter(a, b) == a.year < b.year \/ (a.year = b.year /\ a.month <= b.month)

RECURSIVE SubsetsUpTo(_, _)
SubsetsUpTo(S, n) ==
  IF n = 0 THEN {{}}
  ELSE LET T == SubsetsUpTo(S, n - 1)
       IN  T \cup { t \cup {x} : t \in T, x \in S }

\* the storage tree some earlier runs left: nothing at all, or every month
\* up to some date not after today, but for a few artifacts
InitGate ==
  /\ hscodes = << "26011100" >>
  /\ wall \in Dates
  /\ horizon = wall
  /\ \/ /\ store = [p \in {} |-> Kept(p)]
        /\ dirs \in SUBSET Range(hscodes)
     \/ /\ \E upto \in Dates :
             /\ NotAfter(upto, wall)
             /\ \E gone \in SubsetsUpTo(GridPaths(Range(hscodes), upto),
                                        MaxGone) :
                  store = [p \in GridPaths(Range(hscodes), upto) \ gone
                             |-> Kept(p)]
        /\ dirs = Range(hscodes)
  /\ staging = {}
  /\ Idle
  /\ pc = "gate_call"
  /\ \E s \in GateYears : \E e \in GateYears :
       /\ s <= e
       /\ call = [of |-> "is_hscode_completed", hscode_dir |-> hscodes[1],
                  first_year |-> s, end_year |-> e]
  /\ result = NoCall

\* lines 63-86: one call of is_hscode_completed
GateCall ==
  /\ pc = "gate_call"
  /\ result' = [of |-> "is_hscode_completed",
                value |-> is_hscode_completed(call.hscode_dir,
                                              call.first_year, call.end_year)]
  /\ pc' = "gate_done"
  /\ UNCHANGED << hscodes, wall, clock, dirs, store, staging, downloads,
                  session, run, now, idx, year, month, attempted, reached,
                  gated, last, horizon, prevStore, writes, timeouts,
                  temp_dir, call >>
  /\ UNCHANGED taskVars

NextGate == GateCall

SpecGate == InitGate /\ [][NextGate]_vars

(* ------------------ the wide-to-long transformer ---------------------- *)
\* text is held as TLA+ strings; a character is a string of length one
UpperCase == "ABCDEFGHIJKLMNOPQRSTUVWXYZ"
LowerCase == "abcdefghijklmnopqrstuvwxyz"
DigitChars == "0123456789"

Char(s, i) == SubSeq(s, i, i)
Chars(s) == { Char(s, i) : i \in 1..Len(s) }

\* the classes [A-Za-z] and \d of the pattern, and what strip() removes
LetterSet ==
  { "A", "B", "C", "D", "E", "F", "G", "H", "I", "J", "K", "L", "M", "N", "O",
    "P", "Q", "R", "S", "T", "U", "V", "W", "X", "Y", "Z", "a", "b", "c", "d",
    "e", "f", "g", "h", "i", "j", "k", "l", "m", "n", "o", "p", "q", "r", "s",
    "t", "u", "v", "w", "x", "y", "z" }
DigitSet == { "0", "1", "2", "3", "4", "5", "6", "7", "8", "9" }
IsLetter(c) == c \in LetterSet
IsDigit(c) == c \in DigitSet
IsSpace(c) == c \in {" ", "\t", "\n", "\r"}

\* a number: sign, whole part, decimal places without trailing zeros
Num(neg, whole, frac) == [neg |-> neg, whole |-> whole, frac |-> frac, nan |-> FALSE]
NotANumber == [neg |-> FALSE, whole |-> 0, frac |-> "", nan |-> TRUE]

\* the cells pandas.read_excel(header=None) yields: NaN for an empty cell,
\* a str, or a number
NaN == [t |-> "nan", s |-> "", v |-> NotANumber]
Text(s) == [t |-> "str", s |-> s, v |-> NotANumber]
Number(whole, frac) == [t |-> "num", s |-> "", v |-> Num(FALSE, whole, frac)]

\* str.strip()
RECURSIVE lstrip(_)
lstrip(s) ==
  IF Len(s) > 0 /\ IsSpace(Char(s, 1)) THEN lstrip(Tail(s)) ELSE s

RECURSIVE rstrip(_)
rstrip(s) ==
  IF Len(s) > 0 /\ IsSpace(Char(s, Len(s)))
  THEN rstrip(SubSeq(s, 1, Len(s) - 1))
  ELSE s

strip(s) == rstrip(lstrip(s))

\* str.lower()
LowerChar(c) ==
  LET at == { i \in 1..Len(UpperCase) : Char(UpperCase, i) = c }
  IN  IF at = {} THEN c ELSE Char(LowerCase, CHOOSE i \in at : TRUE)

RECURSIVE lower(_)
lower(s) ==
  IF Len(s) = 0 THEN s ELSE LowerChar(Char(s, 1)) \o lower(Tail(s))

\* the decimal digits of a natural number
RECURSIVE Decimal(_)
Decimal(n) ==
  IF n < Len(DigitChars) THEN Char(DigitChars, n + 1)
  ELSE Decimal(n \div Len(DigitChars)) \o
       Char(DigitChars, (n % Len(DigitChars)) + 1)

\* str(cell), lines 56, 100, 113
str(cell) ==
  CASE cell.t = "nan" -> "nan"
    [] cell.t = "str" -> cell.s
    [] cell.t = "num" ->
         (IF cell.v.neg THEN "-" ELSE "") \o Decimal(cell.v.whole) \o
         (IF cell.v.frac = "" THEN "" ELSE "." \o cell.v.frac)

DigitOf(c) == CHOOSE d \in 0..(Len(DigitChars) - 1) : Char(DigitChars, d + 1) = c

AllDigits(s) == \A i \in 1..Len(s) : IsDigit(Char(s, i))

RECURSIVE DigitsValue(_)
DigitsValue(s) ==
  IF Len(s) = 0 THEN 0
  ELSE DigitsValue(SubSeq(s, 1, Len(s) - 1)) * Len(DigitChars) +
       DigitOf(Char(s, Len(s)))

RECURSIVE DropZeros(_)
DropZeros(s) ==
  IF Len(s) > 0 /\ Char(s, Len(s)) = "0"
  THEN DropZeros(SubSeq(s, 1, Len(s) - 1))
  ELSE s

ValueError == [ok |-> FALSE, v |-> NotANumber]

\* float() of a text: blanks around, a sign, digits with at most one point
\* and at least one digit (exponents, "inf", "nan" and digit separators are
\* spellings the sheets drawn here do not hold)
FloatOfText(s) ==
  LET b == strip(s)
      signed == Len(b) > 0 /\ Char(b, 1) \in {"-", "+"}
      u == IF signed THEN Tail(b) ELSE b
      dots == { i \in 1..Len(u) : Char(u, i) = "." }
      dot == IF dots = {} THEN Len(u) + 1 ELSE CHOOSE i \in dots : TRUE
      w == SubSeq(u, 1, dot - 1)
      f == SubSeq(u, dot + 1, Len(u))
  IN  IF /\ Cardinality(dots) <= 1
         /\ AllDigits(w)
         /\ AllDigits(f)
         /\ Len(w) + Len(f) > 0
      THEN LET whole == DigitsValue(w)
               frac == DropZeros(f)
           IN  [ok |-> TRUE,
                v |-> Num(Char(b, 1) = "-" /\ (whole > 0 \/ frac # ""),
                          whole, frac)]
      ELSE ValueError

\* float(value), line 130: a ValueError or TypeError is a cell to skip
float(cell) ==
  CASE cell.t = "num" -> [ok |-> TRUE, v |-> cell.v]
    [] cell.t = "nan" -> [ok |-> TRUE, v |-> NotANumber]
    [] cell.t = "str" -> FloatOfText(cell.s)

\* line 59: the labels that are never value columns
SkipLabels == {"S.No.", "Country", "(R)", "%Growth", "nan", ""}

AllLetters(s, i, j) == \A k \in i..(j - 1) : IsLetter(Char(s, k))

FourDigits(s, g) ==
  g + 3 <= Len(s) /\ \A k \in g..(g + 3) : IsDigit(Char(s, k))

\* line 64, ([A-Za-z]+)-?([A-Za-z]*)?(\d{4}): the ways the pattern matches
\* from position i, as <<end of group 1, start of group 2, start of group 3>>
MatchesAt(s, i) ==
  LET group1 == { a \in (i + 1)..(Len(s) + 1) : AllLetters(s, i, a) }
      hyphen(a) ==
        {a} \cup (IF a <= Len(s) /\ Char(s, a) = "-" THEN {a + 1} ELSE {})
      group3(b) ==
        { g \in b..(Len(s) + 1) : AllLetters(s, b, g) /\ FourDigits(s, g) }
  IN  UNION { UNION { { << a, b, g >> : g \in group3(b) } : b \in hyphen(a) } :
              a \in group1 }

\* the match a backtracking matcher finds first: every quantifier greedy,
\* the earlier quantifier first
Preferred(a, b) ==
  \/ a[1] > b[1]
  \/ a[1] = b[1] /\ a[2] > b[2]
  \/ a[1] = b[1] /\ a[2] = b[2] /\ a[3] >= b[3]

\* re.search: the leftmost position with a match, and the first match there;
\* << >> is None
re_search(s) ==
  LET starts == { i \in 1..Len(s) : MatchesAt(s, i) # {} }
  IN  IF starts = {} THEN << >>
      ELSE LET i == CHOOSE i \in starts : \A j \in starts : i <= j
               found == MatchesAt(s, i)
               m == CHOOSE m \in found : \A n \in found : Preferred(m, n)
           IN  << [group1 |-> SubSeq(s, i, m[1] - 1),
                   group3 |-> SubSeq(s, m[3], m[3] + 3)] >>

\* lines 46-70, from column col_idx on
RECURSIVE YearColumnsFrom(_, _)
YearColumnsFrom(df_header_row, col_idx) ==
  IF col_idx > Len(df_header_row) THEN << >>
  ELSE LET col_str == strip(str(df_header_row[col_idx]))
           rest == YearColumnsFrom(df_header_row, col_idx + 1)
       IN  IF col_str \in SkipLabels THEN rest
           ELSE LET match == re_search(col_str)
                IN  IF match = << >> THEN rest
                    ELSE << [col_idx |-> col_idx, col_str |-> col_str,
                             year |-> match[1].group3,
                             month |-> match[1].group1] >> \o rest

extract_year_columns(df_header_row) == YearColumnsFrom(df_header_row, 1)

\* lines 98-103: the first column whose label is "country"; 0 is None
CountryColumn(header_row) ==
  LET found == { col_idx \in 1..Len(header_row) :
                   lower(strip(str(header_row[col_idx]))) = "country" }
  IN  IF found = {} THEN 0
      ELSE CHOOSE col_idx \in found : \A j \in found : col_idx <= j

\* a faulty variant: no value cell counts as blank
NeverBlank(value) == FALSE

\* line 126: pd.isna(value) or value == ''
IsBlankValue(value) ==
  value.t = "nan" \/ (value.t = "str" /\ value.s = "")

\* lines 120-144: the records of one row, from the k-th year column on
RECURSIVE RowRecords(_, _, _, _, _)
RowRecords(row, r, country, year_columns, k) ==
  IF k > Len(year_columns) THEN << >>
  ELSE LET value == row[year_columns[k].col_idx]
           rest == RowRecords(row, r, country, year_columns, k + 1)
       IN  IF IsBlankValue(value) THEN rest
           ELSE IF ~float(value).ok THEN rest
           ELSE << [HSCod |-> call.hscode,
                    Commodity |-> call.commodity_name,
                    Value |-> float(value).v,
                    Country |-> country,
                    Date |-> year_columns[k].month \o "-" \o
                             year_columns[k].year,
                    Type |-> call.data_type,
                    row |-> r,
                    col |-> year_columns[k].col_idx] >> \o rest

\* lines 112-144: the records of the rows from the r-th row of the sheet on
RECURSIVE LongData(_, _, _, _)
LongData(df_raw, r, country_col_idx, year_columns) ==
  IF r > Len(df_raw) THEN << >>
  ELSE LET country == strip(str(df_raw[r][country_col_idx]))
           rest == LongData(df_raw, r + 1, country_col_idx, year_columns)
       IN  IF country \in {"", "nan", "None"} THEN rest
           ELSE RowRecords(df_raw[r], r, country, year_columns, 1) \o rest

None == [none |-> TRUE, records |-> << >>]

\* lines 73-153: the header is the third row, the data the rows after it
process_monthly_file(df_raw) ==
  IF Len(df_raw) < 3 THEN None
  ELSE LET header_row == df_raw[3]
           year_columns == extract_year_columns(header_row)
           country_col_idx == CountryColumn(header_row)
       IN  IF year_columns = << >> THEN None
           ELSE IF country_col_idx = 0 THEN None
           ELSE LET long_data ==
                      LongData(df_raw, 4, country_col_idx, year_columns)
                IN  IF long_data # << >>
                    THEN [none |-> FALSE, records |-> long_data]
                    ELSE None

(* ------------- the transformer, called on sheets of its own ----------- *)
\* data rows of a sheet
MaxRows == 2

MetaRow == << Text("Commodity-wise all countries"), NaN, NaN, NaN, NaN >>

CountryLabels == { "Country", " country ", "Pays" }

LabelCells ==
  { Text("Apr-2020"), Text("May-2020"), Text("Apr-Mar2021"),
    Text(" FY Jun2021(R)"), Text("Apr-May-2020"), Text("Apr 2020"),
    Text("Total"), Text("(R)"), NaN }

CountryCells ==
  { Text(" U S A "), Text(" "), Text("None"), NaN, Number(826, "") }

ValueCells ==
  { Number(12, "5"), NaN, Text(""), Text("3%"), Text(" -7.50 ") }

Headers ==
  { << Text("S.No."), Text(c), h[1], h[2], Text("%Growth") >> :
      c \in CountryLabels,
      h \in LabelCells \X { Text("May-2020"), Text("Apr-2020") } }

FirstRows ==
  { << Number(2, ""), c, v, Text("12.5"), Text("3%") >> :
      c \in CountryCells, v \in ValueCells }

MoreRows ==
  { << Number(1, ""), Text("Germany"), Number(12, "5"), NaN, Text("3%") >>,
    << NaN, NaN, Number(4, ""), Number(12, "5"), NaN >> }

RECURSIVE SeqsUpTo(_, _)
SeqsUpTo(S, n) ==
  IF n = 0 THEN { << >> }
  ELSE LET T == SeqsUpTo(S, n - 1)
       IN  T \cup { << x >> \o t : x \in S, t \in T }

DataRows ==
  { << >> } \cup SeqsUpTo(MoreRows, MaxRows) \cup
  { << f >> \o more : f \in FirstRows, more \in SeqsUpTo(MoreRows, MaxRows - 1) }

Sheets ==
  { SubSeq(<< MetaRow, MetaRow >>, 1, n) : n \in 0..2 } \cup
  { << MetaRow, MetaRow, h >> \o rows : h \in Headers, rows \in DataRows }

InitTransform ==
  /\ hscodes = << "26011100" >>
  /\ wall = January2018
  /\ horizon = wall
  /\ store = [p \in {} |-> Kept(p)]
  /\ dirs = {}
  /\ staging = {}
  /\ Idle
  /\ pc = "transform_call"
  /\ \E df_raw \in Sheets :
       call = [of |-> "process_monthly_file", df_raw |-> df_raw,
               hscode |-> "26011100", commodity_name |-> "Iron ores",
               data_type |-> "Export"]
  /\ result = NoCall

\* lines 73-153: one call of process_monthly_file
TransformCall ==
  /\ pc = "transform_call"
  /\ result' = [of |-> "process_monthly_file",
                value |-> process_monthly_file(call.df_raw)]
  /\ pc' = "transform_done"
  /\ UNCHANGED << hscodes, wall, clock, dirs, store, staging, downloads,
                  session, run, now, idx, year, month, attempted, reached,
                  gated, last, horizon, prevStore, writes, timeouts,
                  temp_dir, call >>
  /\ UNCHANGED taskVars

NextTransform == TransformCall

SpecTransform == InitTransform /\ [][NextTransform]_vars

\* the sheet of the worked example
ExampleSheet ==
  << MetaRow, MetaRow,
     << Text("S.No."), Text("Country"), Text("Apr-2020"), Text("May-2020"),
        Text("%Growth") >>,
     << Number(1, ""), Text("Germany"), Number(12, "5"), NaN, Text("3%") >> >>

(* ----------------- the per-code aggregator, on its own ---------------- *)
\* the characters of file names and of key values, in code-point order
\* (what sorted and sort_values compare)
CodePointOrder ==
  "-.0123456789ABCDEFGHIJKLMNOPQRSTUVWXYZ_abcdefghijklmnopqrstuvwxyz"

Ord(c) == CHOOSE i \in 1..Len(CodePointOrder) : Char(CodePointOrder, i) = c

\* str < str
RECURSIVE StrLess(_, _)
StrLess(a, b) ==
  IF Len(a) = 0 THEN Len(b) > 0
  ELSE IF Len(b) = 0 THEN FALSE
  ELSE IF Char(a, 1) = Char(b, 1) THEN StrLess(Tail(a), Tail(b))
  ELSE Ord(Char(a, 1)) < Ord(Char(b, 1))

\* sorted(...) of a set of distinct names
RECURSIVE sorted(_)
sorted(names) ==
  IF names = {} THEN << >>
  ELSE LET least == CHOOSE x \in names :
                      \A y \in names \ {x} : StrLess(x, y)
       IN  << least >> \o sorted(names \ {least})

\* str.endswith
endswith(s, suffix) ==
  /\ Len(s) >= Len(suffix)
  /\ SubSeq(s, Len(s) - Len(suffix) + 1, Len(s)) = suffix

\* line 167: the directory is a function from file names to sheets
excel_files(hscode_dir) ==
  sorted({ f \in DOMAIN hscode_dir : endswith(f, ".xlsx") })

\* a record of a monthly file, with the file it came from
FromFile(rec, filename) ==
  [HSCod |-> rec.HSCod, Commodity |-> rec.Commodity, Value |-> rec.Value,
   Country |-> rec.Country, Date |-> rec.Date, Type |-> rec.Type,
   row |-> rec.row, col |-> rec.col, file |-> filename]

\* line 178: the records of one file, from the i-th on
RECURSIVE Tagged(_, _, _)
Tagged(records, filename, i) ==
  IF i > Len(records) THEN << >>
  ELSE << FromFile(records[i], filename) >> \o
       Tagged(records, filename, i + 1)

\* a faulty variant: the loop over the files ends at the first file that
\* yields nothing
RECURSIVE AllDataStopsAtNone(_, _, _)
AllDataStopsAtNone(hscode_dir, files, k) ==
  IF k > Len(files) THEN << >>
  ELSE LET df_long == process_monthly_file(hscode_dir[files[k]])
       IN  IF df_long.none THEN << >>
           ELSE Tagged(df_long.records, files[k], 1) \o
                AllDataStopsAtNone(hscode_dir, files, k + 1)

\* lines 171-183: the records of the files from the k-th on, concatenated
RECURSIVE AllData(_, _, _)
AllData(hscode_dir, files, k) ==
  IF k > Len(files) THEN << >>
  ELSE LET df_long == process_monthly_file(hscode_dir[files[k]])
           rest == AllData(hscode_dir, files, k + 1)
       IN  IF df_long.none \/ Len(df_long.records) = 0 THEN rest
           ELSE Tagged(df_long.records, files[k], 1) \o rest

\* a faulty variant: of the records with one key the last is kept
RECURSIVE KeepLast(_, _, _)
KeepLast(df, k, seen) ==
  IF k > Len(df) THEN << >>
  ELSE IF \E j \in (k + 1)..Len(df) :
            << df[j].HSCod, df[j].Country, df[j].Date >> =
            << df[k].HSCod, df[k].Country, df[k].Date >>
       THEN KeepLast(df, k + 1, seen)
       ELSE << df[k] >> \o KeepLast(df, k + 1, seen)

\* line 186: drop_duplicates(subset=['HSCod', 'Country', 'Date'],
\* keep='first'), from the k-th record on, `seen` the keys met before it
RECURSIVE drop_duplicates(_, _, _)
drop_duplicates(df, k, seen) ==
  IF k > Len(df) THEN << >>
  ELSE LET key == << df[k].HSCod, df[k].Country, df[k].Date >>
       IN  IF key \in seen THEN drop_duplicates(df, k + 1, seen)
           ELSE << df[k] >> \o drop_duplicates(df, k + 1, seen \cup {key})

\* lines 156-192
process_hscode_directory(hscode_dir) ==
  LET files == excel_files(hscode_dir)
      all_data == AllData(hscode_dir, files, 1)
  IN  IF all_data # << >>
      THEN [none |-> FALSE, records |-> drop_duplicates(all_data, 1, {})]
      ELSE None

\* monthly files of one code directory
MaxFiles == 2

FileNames ==
  { "April_2020.xlsx", "May_2020.xlsx", "June_2020.xlsx", "August_2020.xlsx" }

\* a sheet with a header and its data rows
Sheet(header, rows) == << MetaRow, MetaRow, header >> \o rows

MonthlyHeader ==
  << Text("S.No."), Text("Country"), Text("Apr-2020"), Text("Apr-Mar2020"),
     Text("%Growth") >>

MonthlySheets ==
  { ExampleSheet,
    Sheet(MonthlyHeader,
          << << Number(1, ""), Text("Germany"), Number(7, ""), Number(9, ""),
                NaN >>,
             << Number(2, ""), Text("France"), Number(3, ""), NaN, NaN >>,
             << Number(3, ""), Text("Germany"), Number(8, ""), NaN, NaN >> >>),
    Sheet(<< Text("S.No."), Text("Country"), Text("May-2020"),
             Text("Apr-2020"), Text("%Growth") >>,
          << << Number(1, ""), Text("France"), Number(5, ""), Number(4, ""),
                NaN >> >>),
    Sheet(<< Text("S.No."), Text("Pays"), Text("Apr-2020"), Text("May-2020"),
             Text("%Growth") >>,
          << << Number(1, ""), Text("Germany"), Number(6, ""), Number(6, ""),
                NaN >> >>),
    Sheet(<< Text("S.No."), Text("Country"), Text("Total"), NaN,
             Text("%Growth") >>,
          << << Number(1, ""), Text("Germany"), Number(6, ""), NaN, NaN >> >>),
    << MetaRow, MetaRow >> }

\* the directories: up to MaxFiles monthly files, and maybe a file that is
\* no spreadsheet
Directories ==
  LET monthly ==
        UNION { [names -> MonthlySheets] :
                  names \in SubsetsUpTo(FileNames, MaxFiles) }
      notes == [f \in {"notes.txt"} |-> ExampleSheet]
  IN  monthly \cup { d @@ notes : d \in monthly }

InitAggregate ==
  /\ hscodes = << "26011100" >>
  /\ wall = January2018
  /\ horizon = wall
  /\ store = [p \in {} |-> Kept(p)]
  /\ dirs = {}
  /\ staging = {}
  /\ Idle
  /\ pc = "aggregate_call"
  /\ \E hscode_dir \in Directories :
       call = [of |-> "process_hscode_directory", hscode_dir |-> hscode_dir,
               hscode |-> "26011100", commodity_name |-> "Iron ores",
               data_type |-> "Export"]
  /\ result = NoCall

\* lines 156-192: one call of process_hscode_directory
AggregateCall ==
  /\ pc = "aggregate_call"
  /\ result' = [of |-> "process_hscode_directory",
                value |-> process_hscode_directory(call.hscode_dir)]
  /\ pc' = "aggregate_done"
  /\ UNCHANGED << hscodes, wall, clock, dirs, store, staging, downloads,
                  session, run, now, idx, year, month, attempted, reached,
                  gated, last, horizon, prevStore, writes, timeouts,
                  temp_dir, call >>
  /\ UNCHANGED taskVars

NextAggregate == AggregateCall

SpecAggregate == InitAggregate /\ [][NextAggregate]_vars

(* ------------------- the catalog and the entry point ------------------ *)
\* str.startswith
startswith(s, prefix) ==
  Len(s) >= Len(prefix) /\ SubSeq(s, 1, Len(prefix)) = prefix

\* a faulty variant: a line is a comment if it holds a '#' anywhere
RECURSIVE ReadLinesNoHash(_, _)
ReadLinesNoHash(lines, k) ==
  IF k > Len(lines) THEN << >>
  ELSE LET code == strip(lines[k])
           rest == ReadLinesNoHash(lines, k + 1)
       IN  IF code # "" /\ "#" \notin Chars(code) THEN << code >> \o rest
           ELSE rest

\* lines 93-96: the codes of the lines from the k-th on
RECURSIVE ReadLines(_, _)
ReadLines(lines, k) ==
  IF k > Len(lines) THEN << >>
  ELSE LET code == strip(lines[k])
           rest == ReadLines(lines, k + 1)
       IN  IF code # "" /\ ~startswith(code, "#") THEN << code >> \o rest
           ELSE rest

\* lines 88-101: a file that is not there gives the empty list
read_hscodes_from_file(file) ==
  IF ~file.exists THEN << >> ELSE ReadLines(file.lines, 1)

\* lines of one catalog file
MaxLines == 2

\* the lines a catalog file may hold, as iterating the file yields them
CatalogLines ==
  { "26011100\n", " 71081200 \r\n", "\n", " \t\n", "# iron ores\n",
    "  #26011100\n", "2601#1100\n", "71081200" }

CatalogFiles ==
  { [exists |-> FALSE, lines |-> << >>] } \cup
  { [exists |-> TRUE, lines |-> lines] :
      lines \in SeqsUpTo(CatalogLines, MaxLines) }

\* the program starts: nothing is on disk but the staging directory
InitCatalog ==
  /\ hscodes = << >>
  /\ wall = January2018
  /\ horizon = wall
  /\ store = [p \in {} |-> Kept(p)]
  /\ dirs = {}
  /\ staging = {}
  /\ Idle
  /\ pc = "catalog"
  /\ \E file \in CatalogFiles :
       call = [of |-> "read_hscodes_from_file", file |-> file]
  /\ result = NoCall

\* line 236: the catalog is read
ReadCatalog ==
  /\ pc = "catalog"
  /\ result' = [of |-> "read_hscodes_from_file",
                value |-> read_hscodes_from_file(call.file)]
  /\ pc' = "catalog_read"
  /\ UNCHANGED << hscodes, wall, clock, dirs, store, staging, downloads,
                  session, run, now, idx, year, month, attempted, reached,
                  gated, last, horizon, prevStore, writes, timeouts,
                  temp_dir, call >>
  /\ UNCHANGED taskVars

\* a faulty variant: the driver is started with the empty list
MainScrapesNothing ==
  /\ pc = "catalog_read"
  /\ result.value = << >>
  /\ hscodes' = result.value
  /\ pc' = "main"
  /\ UNCHANGED << wall, clock, dirs, store, staging, downloads, session,
                  run, now, idx, year, month, attempted, reached, gated,
                  last, horizon, prevStore, writes, timeouts, temp_dir,
                  call, result >>
  /\ UNCHANGED taskVars

\* lines 238-239: "No HS codes found.", the program ends
MainNothing ==
  /\ pc = "catalog_read"
  /\ result.value = << >>
  /\ pc' = "exit"
  /\ UNCHANGED << hscodes, wall, clock, dirs, store, staging, downloads,
                  session, run, now, idx, year, month, attempted, reached,
                  gated, last, horizon, prevStore, writes, timeouts,
                  temp_dir, call, result >>
  /\ UNCHANGED taskVars

\* lines 240-241: scrape_commodity_data(hscodes)
MainScrape ==
  /\ pc = "catalog_read"
  /\ result.value # << >>
  /\ hscodes' = result.value
  /\ pc' = "main"
  /\ UNCHANGED << wall, clock, dirs, store, staging, downloads, session,
                  run, now, idx, year, month, attempted, reached, gated,
                  last, horizon, prevStore, writes, timeouts, temp_dir,
                  call, result >>
  /\ UNCHANGED taskVars

\* the entry point, followed until the first code directory is made
NextCatalog ==
  ReadCatalog \/ MainNothing \/ MainScrape \/ StartRun \/ MakeDir

SpecCatalog == InitCatalog /\ [][NextCatalog]_vars

(* --------------------- the consolidation (merge) ---------------------- *)
\* sub in s
RECURSIVE Contains(_, _)
Contains(s, sub) ==
  IF Len(s) < Len(sub) THEN FALSE
  ELSE startswith(s, sub) \/ Contains(Tail(s), sub)

\* line 52
expected_columns ==
  << "HSCod", "Commodity", "Value", "Country", "Date", "Type" >>

\* the place of a column among the columns of a frame (0: not there)
ColumnIndex(columns, col) ==
  IF \E i \in DOMAIN columns : columns[i] = col
  THEN CHOOSE i \in DOMAIN columns : columns[i] = col
  ELSE 0

\* line 49: a row of a file that was read, by column name, with the file
\* and the row it came from
MergedRow(frame, filename, i) ==
  [HSCod |-> frame.rows[i][ColumnIndex(frame.columns, "HSCod")],
   Commodity |-> frame.rows[i][ColumnIndex(frame.columns, "Commodity")],
   Value |-> frame.rows[i][ColumnIndex(frame.columns, "Value")],
   Country |-> frame.rows[i][ColumnIndex(frame.columns, "Country")],
   Date |-> frame.rows[i][ColumnIndex(frame.columns, "Date")],
   Type |-> frame.rows[i][ColumnIndex(frame.columns, "Type")],
   file |-> filename, row |-> i]

RECURSIVE MergedRows(_, _, _)
MergedRows(frame, filename, i) ==
  IF i > Len(frame.rows) THEN << >>
  ELSE << MergedRow(frame, filename, i) >> \o MergedRows(frame, filename, i + 1)

\* lines 29-30: the spreadsheets of the listing, the consolidated one left out
RECURSIVE MergeFiles(_, _)
MergeFiles(listdir, k) ==
  IF k > Len(listdir) THEN << >>
  ELSE LET f == listdir[k]
           rest == MergeFiles(listdir, k + 1)
       IN  IF endswith(f, ".xlsx") /\ ~Contains(lower(f), "consolidated")
           THEN << f >> \o rest
           ELSE rest

\* lines 47-68: a file is taken if it can be read and has the six columns
Loaded(frame) ==
  /\ frame.readable
  /\ \A i \in DOMAIN expected_columns :
       ColumnIndex(frame.columns, expected_columns[i]) # 0

\* lines 44-68: the files that were appended to all_dataframes
RECURSIVE LoadedFiles(_, _, _)
LoadedFiles(directory, files, k) ==
  IF k > Len(files) THEN << >>
  ELSE LET rest == LoadedFiles(directory, files, k + 1)
       IN  IF Loaded(directory[files[k]]) THEN << files[k] >> \o rest
           ELSE rest

\* line 79: pd.concat of the frames, in the order they were appended
RECURSIVE Concat(_, _, _)
Concat(directory, loaded, k) ==
  IF k > Len(loaded) THEN << >>
  ELSE MergedRows(directory[loaded[k]], loaded[k], 1) \o
       Concat(directory, loaded, k + 1)

\* a faulty variant: Type is part of the key
RECURSIVE MergeDedupByType(_)
MergeDedupByType(df) ==
  IF df = << >> THEN << >>
  ELSE LET front == SubSeq(df, 1, Len(df) - 1)
           r == df[Len(df)]
       IN  IF \E j \in DOMAIN front :
                << front[j].HSCod, front[j].Country, front[j].Date,
                   front[j].Type >> =
                << r.HSCod, r.Country, r.Date, r.Type >>
           THEN MergeDedupByType(front)
           ELSE MergeDedupByType(front) \o << r >>

\* lines 83-86: drop_duplicates(subset=['HSCod', 'Country', 'Date'],
\* keep='first')
MergeDedup(df) == drop_duplicates(df, 1, {})

\* line 91: the order of sort_values(['HSCod', 'Date', 'Country'])
RowLess(a, b) ==
  IF a.HSCod # b.HSCod THEN StrLess(a.HSCod, b.HSCod)
  ELSE IF a.Date # b.Date THEN StrLess(a.Date, b.Date)
  ELSE StrLess(a.Country, b.Country)

\* line 91: sort_values, the rows at the places `left` still to be put;
\* rows that compare equal keep their order
RECURSIVE SortRows(_, _)
SortRows(df, left) ==
  IF left = {} THEN << >>
  ELSE LET least == CHOOSE i \in left :
                      \A j \in left \ {i} :
                        \/ RowLess(df[i], df[j])
                        \/ ~RowLess(df[j], df[i]) /\ i < j
       IN  << df[least] >> \o SortRows(df, left \ {least})

sort_values(df) == SortRows(df, DOMAIN df)

\* lines 20-95: what is written to the consolidated file, or nothing
merge_excel_files(directory, listdir) ==
  LET files == MergeFiles(listdir, 1)
      loaded == LoadedFiles(directory, files, 1)
  IN  IF files = << >> THEN None
      ELSE IF loaded = << >> THEN None
      ELSE [none |-> FALSE,
            records |-> sort_values(MergeDedup(Concat(directory, loaded, 1)))]

\* files of the transformed directory
MaxMergeFiles == 2

TransformedNames ==
  { "26011100_export.xlsx", "26011100_import.xlsx", "all_export_data.xlsx",
    "Consolidated_all_hscodes.xlsx", "notes.txt" }

\* the files as pd.read_excel finds them
TransformedFrames ==
  { [readable |-> TRUE, columns |-> expected_columns, rows |->
       << << "26011100", "Iron ores", 10, "CHINA", "Apr-2020", "Export" >>,
          << "26011100", "Iron ores", 20, "JAPAN", "Apr-2020", "Export" >> >>],
    [readable |-> TRUE, columns |-> expected_columns, rows |->
       << << "26011100", "Iron ores", 30, "JAPAN", "May-2020", "Import" >>,
          << "26011100", "Iron ores", 40, "CHINA", "Apr-2020", "Import" >> >>],
    [readable |-> TRUE, columns |-> expected_columns, rows |->
       << << "71081200", "Gold", 50, "CHINA", "Apr-2020", "Import" >>,
          << "26011100", "Iron ores", 60, "CHINA", "Apr-2020", "Export" >>,
          << "26011100", "Iron ores", 70, "CHINA", "Apr-2020", "Import" >> >>],
    [readable |-> TRUE, columns |-> expected_columns, rows |-> << >>],
    [readable |-> TRUE,
     columns |-> << "HSCod", "Commodity", "Value", "Country", "Date" >>,
     rows |-> << << "26011100", "Iron ores", 80, "CHINA", "Apr-2020" >> >>],
    [readable |-> FALSE, columns |-> << >>, rows |-> << >>] }

TransformedDirs ==
  UNION { [names -> TransformedFrames] :
            names \in { n \in SUBSET TransformedNames :
                          Cardinality(n) <= MaxMergeFiles } }

\* the orders os.listdir may give the names of a directory in
Listings(names) ==
  { l \in [1..Cardinality(names) -> names] : Range(l) = names }

InitMerge ==
  /\ hscodes = << "26011100" >>
  /\ wall = January2018
  /\ horizon = wall
  /\ store = [p \in {} |-> Kept(p)]
  /\ dirs = {}
  /\ staging = {}
  /\ Idle
  /\ pc = "merge_call"
  /\ \E directory \in TransformedDirs :
       call = [of |-> "merge_excel_files", directory |-> directory]
  /\ result = NoCall

\* lines 20-95: one call; os.listdir gives the names in some order
MergeCall ==
  /\ pc = "merge_call"
  /\ \E listdir \in Listings(DOMAIN call.directory) :
       result' = [of |-> "merge_excel_files", listdir |-> listdir,
                  value |-> merge_excel_files(call.directory, listdir)]
  /\ pc' = "merge_done"
  /\ UNCHANGED << hscodes, wall, clock, dirs, store, staging, downloads,
                  session, run, now, idx, year, month, attempted, reached,
                  gated, last, horizon, prevStore, writes, timeouts,
                  temp_dir, call >>
  /\ UNCHANGED taskVars

NextMerge == MergeCall

SpecMerge == InitMerge /\ [][NextMerge]_vars

(* ============================== claims ================================ *)
\* the periods of years s..e that are not in the future at date w
Expected(s, e, w) ==
  { ym \in (s..e) \X (1..MonthsPerYear) :
      NotAfter([year |-> ym[1], month |-> ym[2]], w) }

AllExist(hscode, periods) ==
  \A ym \in periods : PathExists(TargetPath(hscode, ym[1], ym[2]))

C2_GateCorrectUpToNow ==
  (pc = "gate_done" /\ call.end_year <= wall.year) =>
    ( result.value <=>
        /\ call.hscode_dir \in dirs
        /\ AllExist(call.hscode_dir,
                    Expected(call.first_year, call.end_year, wall)) )

(* ---------------------- claims about the driver ----------------------- *)
\* the driver's grid for the date n captured at the start of a run
Grid(n) == Expected(start_year, n.year, n)

PathOf(pos) == TargetPath(hscodes[pos[1]], pos[2], pos[3])

\* the calendar month does not change in this behaviour
SameMonth == horizon = January2018

\* C1, as stated: a second run against the tree the first run left (in the
\* same calendar month) performs no network interaction and leaves the set
\* of artifacts as it was.
C1_SecondRunIdle ==
  (run > 1 /\ pc = "done" /\ SameMonth) =>
    (attempted = {} /\ DOMAIN store = DOMAIN prevStore)

\* C1, amended: a later run performs network interactions only for periods
\* whose artifact the previous run left absent, and changes no artifact the
\* previous run left; when the previous run left the artifact of every
\* period of the grid, the later run performs no network interaction and
\* leaves the artifacts exactly as they were.
C1_RerunOnlyFillsGaps ==
  run > 1 =>
    /\ \A pos \in attempted : PathOf(pos) \notin DOMAIN prevStore
    /\ \A p \in DOMAIN prevStore :
         p \in DOMAIN store /\ store[p] = prevStore[p]
    /\ ( /\ pc = "done"
         /\ \A i \in DOMAIN hscodes : \A ym \in Grid(now) :
              TargetPath(hscodes[i], ym[1], ym[2]) \in DOMAIN prevStore )
         => (attempted = {} /\ store = prevStore)

\* a later run ended without any network interaction, on a tree to which an
\* earlier run had added an artifact
C1_IdleRerun ==
  /\ run > 1
  /\ pc = "done"
  /\ attempted = {}
  /\ store = prevStore
  /\ \E p \in DOMAIN writes : writes[p] = 1

\* months of the year of date w strictly before, and up to, w's month
MonthsBefore(w) == { m \in 1..MonthsPerYear : m < w.month }
MonthsThrough(w) == { m \in 1..MonthsPerYear : m <= w.month }

\* the periods of start_year..w.year with the given months of w.year
GridWith(w, months) ==
  ((start_year..(w.year - 1)) \X (1..MonthsPerYear)) \cup ({w.year} \X months)

MonthsReached(i, y) == { m \in 1..MonthsPerYear : << i, y, m >> \in reached }

\* the gate, called in the year it covers last, answers for this grid
GateGridIs(months) ==
  (pc = "gate" /\ now.year = wall.year) =>
    ( is_hscode_completed(hscodes[idx], start_year, now.year)
        <=> AllExist(hscodes[idx], GridWith(wall, months)) )

\* the month loop, once past the last year, has visited these months of it
LoopGridIs(months) ==
  (pc = "period" /\ year > now.year) => MonthsReached(idx, now.year) = months

\* C3, as stated: the grid of the current year, in the gate and in the
\* driver's loop, holds exactly the months strictly before the current one.
C3_CurrentMonthExcluded ==
  GateGridIs(MonthsBefore(wall)) /\ LoopGridIs(MonthsBefore(now))

\* C3, amended: the grid of the current year, in the gate and in the
\* driver's loop, holds exactly the months up to and including the current
\* one; only later months are excluded.
C3_GridThroughCurrentMonth ==
  GateGridIs(MonthsThrough(wall)) /\ LoopGridIs(MonthsThrough(now))

\* the loop has finished a current year of more than one month, the
\* current month among the months it visited
C3_CurrentMonthVisited ==
  /\ pc = "period"
  /\ year > now.year
  /\ now.month > 1
  /\ << idx, now.year, now.month >> \in reached
  /\ << idx, now.year, now.month + 1 >> \notin reached

\* C4, as stated: a task is reported NoData exactly when the wait for the
\* export control expired; then nothing is at the canonical path; a session
\* failure in that wait and a staging-poll timeout are reported as failures.
C4_NoDataOnlyWithoutExport ==
  last.cause # "none" =>
    /\ (last.report = "NoData") <=> (last.cause = "no_button")
    /\ last.report = "NoData" => ~PathExists(last.path)
    /\ last.cause \in {"session_error", "poll_timeout"} =>
         last.report \in {"Failed", "Timeout"}

\* C5: an exception in one period leaves the driver at the month loop of
\* the same code with the session open, and a finished run has reached
\* every period of the grid of every code the gate did not skip.
C5_FailureIsolation ==
  /\ last.report = "Failed" =>
       /\ pc = "period"
       /\ session = "open"
       /\ month > 1
       /\ last.path = TargetPath(hscodes[idx], year, month - 1)
  /\ pc = "done" =>
       \A i \in DOMAIN hscodes :
         \/ i \in gated
         \/ \A ym \in Grid(now) : << i, ym[1], ym[2] >> \in reached

\* a period has just raised and the driver stands before the next period
\* of the same code, whose task is still to be done
C5_NextPeriodAfterException ==
  /\ last.report = "Failed"
  /\ pc = "period"
  /\ InBody
  /\ ~PathExists(Target)

\* C6, as stated: the file at the canonical path of a task is the file the
\* export request of that same task produced.
C6_OwnDownloadOnly ==
  \A p \in DOMAIN store : store[p].owner = p

\* C7: the step the driver takes from a period whose artifact exists is no
\* network interaction and leaves staging, downloads and store alone.
C7_SkipIsSilent ==
  [][ ( /\ pc = "period"
        /\ InBody
        /\ PathExists(Target)
        /\ (pc' # pc \/ month' # month) )
      => ( /\ pc' = "period"
           /\ month' = month + 1
           /\ attempted' = attempted
           /\ downloads' = downloads
           /\ staging' = staging
           /\ store' = store
           /\ session' = session ) ]_vars

\* the period before the current one was reached, its artifact exists and
\* no request was made for it
C7_PeriodSkipped ==
  /\ pc = "period"
  /\ last = NoTask
  /\ month > 1
  /\ << idx, year, month - 1 >> \in reached \ attempted
  /\ PathExists(TargetPath(hscodes[idx], year, month - 1))

\* the staging files that are not partial and are newer than the request
Qualifying == { f \in staging : ~f.partial /\ f.mtime > start_wait }

\* C8, as stated: on every poll, when some file qualifies, the candidate the
\* poll looks at (either of them, when two are equally recent) is a
\* qualifying file, so that it is selected; and a selected file is never
\* partial nor older than the request.
C8_NewestQualifyingSelected ==
  /\ (pc = "poll" /\ PollOpen /\ Qualifying # {}) =>
       \E latest \in get_latest_file(staging) : latest \in Qualifying
  /\ pc = "after_poll" =>
       \A f \in new_file : ~f.partial /\ f.mtime > start_wait

\* C9: a step never removes or changes an artifact, a move into a path
\* happens only when the path is absent, and no path is moved into twice.
C9_WriteOnce ==
  [][ /\ \A p \in DOMAIN store :
           p \in DOMAIN store' /\ store'[p] = store[p]
      /\ \A p \in DOMAIN writes' :
           /\ writes'[p] <= 1
           /\ (p \notin DOMAIN writes \/ writes'[p] > writes[p]) =>
                (p \notin DOMAIN store /\ p \in DOMAIN store') ]_vars

\* a later run has added an artifact next to one an earlier run wrote
C9_GrownAcrossRuns ==
  /\ run > 1
  /\ pc = "done"
  /\ DOMAIN prevStore # DOMAIN store
  /\ \E p \in DOMAIN prevStore : p \in DOMAIN writes

(* -------------------- claims about the transformer -------------------- *)
\* the end of the run of letters that starts at position i
RECURSIVE RunEnd(_, _)
RunEnd(s, i) ==
  IF i <= Len(s) /\ IsLetter(Char(s, i)) THEN RunEnd(s, i + 1) ELSE i

\* the digits that follow the run of letters from i, directly or after a
\* hyphen and further letters; 0 if none do
YearAfter(s, i) ==
  LET e == RunEnd(s, i)
      d == IF e <= Len(s) /\ Char(s, e) = "-" THEN e + 1 ELSE e
      g == RunEnd(s, d)
  IN  IF FourDigits(s, g) THEN g ELSE 0

\* the month token and the year of a label: the first whole run of letters
\* that a four-digit year follows, and that year; << >> if there is none
MonthYear(s) ==
  LET tokens == { i \in 1..Len(s) :
                    /\ IsLetter(Char(s, i))
                    /\ i = 1 \/ ~IsLetter(Char(s, i - 1))
                    /\ YearAfter(s, i) # 0 }
  IN  IF tokens = {} THEN << >>
      ELSE LET i == CHOOSE i \in tokens : \A j \in tokens : i <= j
           IN  << SubSeq(s, i, RunEnd(s, i) - 1),
                  SubSeq(s, YearAfter(s, i), YearAfter(s, i) + 3) >>

Label(df_raw, c) == strip(str(df_raw[3][c]))

CountryColumns(df_raw) ==
  { c \in 1..Len(df_raw[3]) : lower(Label(df_raw, c)) = "country" }

\* the (data row, value column) pairs that are to yield a record
Surviving(df_raw) ==
  LET first == CHOOSE c \in CountryColumns(df_raw) :
                 \A b \in CountryColumns(df_raw) : c <= b
      columns == { c \in 1..Len(df_raw[3]) :
                     /\ Label(df_raw, c) \notin SkipLabels
                     /\ MonthYear(Label(df_raw, c)) # << >> }
      rows == { r \in 4..Len(df_raw) :
                  strip(str(df_raw[r][first])) \notin {"", "nan", "None"} }
  IN  { rc \in rows \X columns :
          /\ df_raw[rc[1]][rc[2]] \notin { NaN, Text("") }
          /\ float(df_raw[rc[1]][rc[2]]).ok }

\* C10: for a sheet with the header in its third row and a country column,
\* process_monthly_file emits, in file order, exactly one record per (data
\* row, value column) pair whose country is not blank or a null marker and
\* whose value is not blank and parses as a number, with the row's country,
\* the date "<month token>-<year>" of the column label and the parsed value.
C10_WideToLong ==
  ( /\ pc = "transform_done"
    /\ Len(call.df_raw) >= 3
    /\ CountryColumns(call.df_raw) # {} ) =>
    LET recs == result.value.records
        df_raw == call.df_raw
        first == CHOOSE c \in CountryColumns(df_raw) :
                   \A b \in CountryColumns(df_raw) : c <= b
        pairs == Surviving(df_raw)
    IN  /\ { << recs[k].row, recs[k].col >> : k \in DOMAIN recs } = pairs
        /\ \A j \in DOMAIN recs : \A k \in DOMAIN recs :
             j < k => \/ recs[j].row < recs[k].row
                      \/ recs[j].row = recs[k].row /\ recs[j].col < recs[k].col
        /\ \A k \in DOMAIN recs :
             LET my == MonthYear(Label(df_raw, recs[k].col))
             IN  /\ recs[k].Country = strip(str(df_raw[recs[k].row][first]))
                 /\ recs[k].Date = my[1] \o "-" \o my[2]
                 /\ recs[k].Value = float(df_raw[recs[k].row][recs[k].col]).v
                 /\ recs[k].HSCod = call.hscode
                 /\ recs[k].Type = call.data_type
        /\ result.value.none <=> (pairs = {})

\* the sheet of the example has yielded the one record (Germany, Apr-2020,
\* 12.5)
C10_ExampleRecord ==
  /\ pc = "transform_done"
  /\ call.df_raw = ExampleSheet
  /\ Len(result.value.records) = 1
  /\ result.value.records[1].Country = "Germany"
  /\ result.value.records[1].Date = "Apr-2020"
  /\ result.value.records[1].Value = Num(FALSE, 12, "5")

(* -------------------- claims about the aggregator --------------------- *)
Key(rec) == << rec.HSCod, rec.Country, rec.Date >>

\* the spreadsheets of a directory
Spreadsheets(hscode_dir) == { f \in DOMAIN hscode_dir : endswith(f, ".xlsx") }

\* every record the monthly files of a directory yield
InputRecords(hscode_dir) ==
  UNION { LET records == process_monthly_file(hscode_dir[f]).records
          IN  { FromFile(records[i], f) : i \in DOMAIN records } :
          f \in Spreadsheets(hscode_dir) }

\* processing order: files by name, then rows, then value columns
Precedes(a, b) ==
  \/ StrLess(a.file, b.file)
  \/ /\ a.file = b.file
     /\ \/ a.row < b.row
        \/ a.row = b.row /\ a.col < b.col

\* C11: the aggregate of a directory holds at most one record per (HSCod,
\* Country, Date); it holds exactly the records of the monthly files that
\* no record with the same key precedes in processing order, so the first
\* of each key is kept, the later ones are dropped and no key is lost.
C11_FirstOccurrenceKept ==
  pc = "aggregate_done" =>
    LET out == result.value.records
        inp == InputRecords(call.hscode_dir)
    IN  /\ \A j \in DOMAIN out : \A k \in DOMAIN out :
             j # k => Key(out[j]) # Key(out[k])
        /\ { out[k] : k \in DOMAIN out } =
             { r \in inp :
                 \A q \in inp : Key(q) = Key(r) => (q = r \/ Precedes(r, q)) }
        /\ \A q \in inp : \E k \in DOMAIN out : Key(out[k]) = Key(q)

\* two monthly files held records with one key and different values, and
\* the aggregate holds the one of the file that sorts first
C11_LaterDuplicateDropped ==
  /\ pc = "aggregate_done"
  /\ \E a \in InputRecords(call.hscode_dir) :
       \E b \in InputRecords(call.hscode_dir) :
         /\ StrLess(a.file, b.file)
         /\ Key(a) = Key(b)
         /\ a.Value # b.Value
         /\ \E k \in DOMAIN result.value.records :
              result.value.records[k] = a

\* the spreadsheets of a directory whose header row has no country label
Malformed(hscode_dir) ==
  { f \in Spreadsheets(hscode_dir) :
      /\ Len(hscode_dir[f]) >= 3
      /\ CountryColumns(hscode_dir[f]) = {} }

\* C12: a monthly file whose header row has no cell labelled "country"
\* (trimmed, whatever the case) yields no records and no error, contributes
\* nothing to the aggregate, and every key of the records of the other
\* files of the directory is still in the aggregate.
C12_MalformedRejected ==
  pc = "aggregate_done" =>
    \A f \in Malformed(call.hscode_dir) :
      /\ process_monthly_file(call.hscode_dir[f]) = None
      /\ \A k \in DOMAIN result.value.records :
           result.value.records[k].file # f
      /\ \A q \in InputRecords(call.hscode_dir) :
           \E k \in DOMAIN result.value.records :
             Key(result.value.records[k]) = Key(q)

\* a file without a country column was passed over and a file that sorts
\* after it gave the aggregate a record
C12_LaterFileStillProcessed ==
  /\ pc = "aggregate_done"
  /\ \E f \in Malformed(call.hscode_dir) :
       \E k \in DOMAIN result.value.records :
         StrLess(f, result.value.records[k].file)

(* ------------------------ claims about waiting ------------------------ *)
\* the driver is inside the request cycle of a task
InTask == pc \in {"get", "fill", "wait_excel", "click", "poll", "after_poll"}

\* C13: whatever the remote tool and the staging directory do, a task that
\* has begun leaves its request cycle (each of its waits ends), and a run
\* that has opened the session ends with the session released.
C13_WaitsEnd ==
  /\ InTask ~> (pc = "period")
  /\ (session = "open") ~> (pc = "done" /\ session = "closed")

\* a task has waited the whole staging timeout for a download that has
\* still not arrived, and the driver stands at the next period
C13_TaskEndedWithoutDownload ==
  /\ pc = "period"
  /\ last.report = "Timeout"
  /\ \E d \in downloads : d.owner = last.path

(* ------------------------ claims about a task ------------------------- *)
\* the steps of a request cycle, in the order of lines 157-214
Stage(p) ==
  CASE p = "get" -> 1
    [] p = "fill" -> 2
    [] p = "wait_excel" -> 3
    [] p = "click" -> 4
    [] p = "poll" -> 5
    [] p = "after_poll" -> 6
    [] OTHER -> 0

\* the outcome of a task: a staging timeout is a failed period
Outcome(report) == IF report = "Timeout" THEN "Failed" ELSE report

\* loop position a lies before loop position b
Behind(a, b) ==
  \/ a[1] < b[1]
  \/ a[1] = b[1] /\ a[2] < b[2]
  \/ a[1] = b[1] /\ a[2] = b[2] /\ a[3] < b[3]

\* C14: while a task is in its request cycle its target artifact is absent;
\* the cycle only moves forward, so the form is submitted at most once, and
\* it ends in one step that records one outcome of Saved, NoData or Failed
\* for the task; right after a task its artifact exists exactly if the
\* outcome is Saved; and every other task of the run that made a request
\* has ended before the current loop position, so at most one is in flight.
C14_TaskLifecycle ==
  /\ [](InTask => ~PathExists(Target))
  /\ [](last.cause # "none" =>
          /\ Outcome(last.report) \in {"Saved", "NoData", "Failed"}
          /\ PathExists(last.path) <=> (Outcome(last.report) = "Saved"))
  /\ [](\A pos \in attempted : (pos = Pos /\ InTask) \/ Behind(pos, Pos))
  /\ [][ InTask =>
           \/ /\ InTask'
              /\ Stage(pc') >= Stage(pc)
              /\ Pos' = Pos
              /\ last' = last
           \/ /\ pc' = "period"
              /\ << idx', year', month' >> = << idx, year, month + 1 >>
              /\ last'.path = Target
              /\ last'.run = run
              /\ Outcome(last'.report) \in {"Saved", "NoData", "Failed"} ]_vars

\* a task of this run has ended Saved with its artifact in place, after
\* another task of the run ended without one
C14_SavedAfterUnsaved ==
  /\ last.report = "Saved"
  /\ PathExists(last.path)
  /\ \E pos \in attempted : ~PathExists(PathOf(pos))

\* C15, as stated: within one run no (code, period) has its request cycle
\* begun twice, whatever the outcome of the first; a period that failed or
\* timed out is not attempted again before the run ends.
C15_NoRetryWithinRun ==
  \A a \in attempted : \A b \in attempted : PathOf(a) = PathOf(b) => a = b

(* ------------------------ claims about re-runs ------------------------ *)
\* the periods that timed out in the previous run and that it left without
\* an artifact
LeftTimedOut ==
  { t[2] : t \in { u \in timeouts : u[1] = run - 1 } } \ DOMAIN prevStore

\* C16: for a period that ended the previous run with a staging timeout and
\* without an artifact, the gate of the next run answers false for its code
\* as long as the artifact is absent, the run has begun a request for that
\* period by the time it ends, and it begins no request for a period whose
\* artifact the previous run left.
C16_RetryByRerun ==
  \A p \in LeftTimedOut :
    /\ (pc = "gate" /\ hscodes[idx] = p[1] /\ ~PathExists(p)) =>
         ~is_hscode_completed(hscodes[idx], start_year, now.year)
    /\ pc = "done" => \E pos \in attempted : PathOf(pos) = p
    /\ \A pos \in attempted : PathOf(pos) \notin DOMAIN prevStore

\* a run has ended that requested again the one period the previous run
\* had timed out on, next to an artifact it left alone
C16_TimedOutPeriodRetried ==
  /\ pc = "done"
  /\ LeftTimedOut # {}
  /\ { PathOf(pos) : pos \in attempted } = LeftTimedOut
  /\ DOMAIN prevStore # {}

(* ----------------- claims about staging and the session --------------- *)
\* C17: the step that ends a task Saved takes the selected file out of the
\* staging directory and puts it at the canonical path of the task: the
\* directory holds one file less, so the file is not there when the next
\* task begins.
C17_MovedNotCopied ==
  [][ (pc = "after_poll" /\ pc' = "period" /\ last'.report = "Saved") =>
        \E f \in new_file :
          /\ f \in staging
          /\ staging' = AsOfNow(staging \ {f})
          /\ Cardinality(staging') < Cardinality(staging)
          /\ Target \in DOMAIN store'
          /\ store'[Target].owner = f.owner ]_vars

\* a task has ended Saved, and of the files still in the staging directory
\* none is the one that was moved
C17_OthersStayInStaging ==
  /\ pc = "period"
  /\ last.report = "Saved"
  /\ staging # {}
  /\ \A f \in staging : f.owner # store[last.path].owner

\* C18: the session goes from none to open to closed once in a run; it is
\* closed by the step that follows the last code, which ends the run
\* whether the staging directory could be removed or not and leaves the
\* artifacts, the code directories and the last outcome alone; after it
\* the session is closed, no download runs, and the staging directory is
\* gone exactly if it was empty.
C18_ReleasedOnce ==
  /\ [](pc = "done" =>
          /\ session = "closed"
          /\ downloads = {}
          /\ (temp_dir = "removed") <=> (staging = {}))
  /\ [](pc \notin {"main", "done"} => session = "open")
  /\ [][ session' # session =>
           /\ << session, session' >> \in
                { << "none", "open" >>, << "open", "closed" >>,
                  << "closed", "none" >> }
           /\ session' = "closed" =>
                /\ pc = "code"
                /\ idx > Len(hscodes)
                /\ pc' = "done"
                /\ store' = store
                /\ dirs' = dirs
                /\ last' = last ]_vars

\* a run has ended with the session closed and the staging directory kept,
\* a file being left in it
C18_CleanupFailedQuietly ==
  /\ pc = "done"
  /\ session = "closed"
  /\ staging # {}
  /\ temp_dir = "present"

\* C20: every code the gate has let the driver skip in this run has the
\* artifact of every period of the driver's own grid, the grid of the date
\* captured when the run began.
C20_SkipGateSound ==
  \A i \in gated : AllExist(hscodes[i], Grid(now))

\* a code was skipped by a gate that read a later month from the clock than
\* the run had captured
C20_SkippedAfterMonthTurned ==
  /\ gated # {}
  /\ wall # now
  /\ pc = "code"

(* ----------------------- claims about the catalog --------------------- *)
\* the lines of a file that hold a code: not blank once trimmed, and not
\* starting with '#' once trimmed
CodeLines(file) ==
  { k \in 1..Len(file.lines) :
      /\ strip(file.lines[k]) # ""
      /\ Char(strip(file.lines[k]), 1) # "#" }

\* C19: the list read from the catalog file holds, in file order, exactly
\* the trimmed lines that are not blank and do not start with '#', and is
\* empty for a file that is not there; with an empty list the program ends
\* with no session created, no request made, and no artifact and no code
\* directory written.
C19_CatalogHandling ==
  pc # "catalog" =>
    LET file == call.file
        codes == result.value
    IN  /\ ~file.exists => codes = << >>
        /\ file.exists =>
             /\ Len(codes) = Cardinality(CodeLines(file))
             /\ \A k \in CodeLines(file) :
                  codes[Cardinality({ j \in CodeLines(file) : j <= k })] =
                    strip(file.lines[k])
        /\ codes = << >> =>
             /\ pc \in {"catalog_read", "exit"}
             /\ session = "none"
             /\ attempted = {}
             /\ DOMAIN store = {}
             /\ dirs = {}

\* a file of a comment and a blank line has ended the program with nothing
\* done, no session among it
C19_NothingToProcess ==
  /\ pc = "exit"
  /\ call.file.exists
  /\ Len(call.file.lines) = 2
  /\ result.value = << >>
  /\ session = "none"

(* ---------------------- claims about the merge ------------------------ *)
\* the place of a file in the order the files were read
ReadPlace(f) ==
  CHOOSE k \in DOMAIN result.listdir : result.listdir[k] = f

\* every row the merge loaded: rows of the files it took
MergeInput ==
  UNION { { MergedRow(call.directory[f], f, i) :
              i \in DOMAIN call.directory[f].rows } :
          f \in { g \in Range(MergeFiles(result.listdir, 1)) :
                    Loaded(call.directory[g]) } }

\* file-read order: files as they were listed, then rows
ReadBefore(a, b) ==
  \/ ReadPlace(a.file) < ReadPlace(b.file)
  \/ a.file = b.file /\ a.row < b.row

====
